---- MODULE Spec2Model ----
(***************************************************************************)
(* Model of the label generator (generate_pdf_label.py, app.py).           *)
(*                                                                         *)
(* Strings are sequences of one-character strings.  Lengths on the page    *)
(* are integers in millipoints (1/1000 pt), so 1 inch = 72000 and every    *)
(* quantity the code computes from inches given in eighths and from the    *)
(* font's integer character widths is exact.  The code computes the same   *)
(* quantities in binary floating point.                                    *)
(***************************************************************************)
EXTENDS Integers, Sequences, FiniteSets, TLC

VARIABLES
    pc,             \* position of the running operation
    device_input,   \* the string handed to the classifier / generate_label
    is_ip,          \* value of is_ip_address(device_input) once evaluated
    is_reg,         \* value of is_registration_code(device_input) once evaluated
    branch,         \* branch of generate_label's if/elif/else that was taken
    input_method,   \* the form's radio selection
    net,            \* what the device answers to this run's requests
    fetch_calls,    \* number of calls of fetch_device_data
    render_calls,   \* number of calls of create_pdf_label
    reg_code,       \* the code handed to create_pdf_label
    width8,         \* page width in eighths of an inch
    height8,        \* page height in eighths of an inch
    available_text_width, \* as computed by create_pdf_label, in millipoints
    drawn,          \* the drawString calls that drew the code text
    result,         \* what generate_label returned
    file_exists,    \* the output PDF exists on disk
    tmpdir_exists,  \* the form handler's temporary directory exists
    pdf_data,       \* what the form handler read for the download, <<>> if nothing
    exception,      \* an exception left generate_label or the read of the file
    mid_point,      \* split index computed by the two-line step
    exit_code       \* exit code of the command line, message kind of the form

vars == <<pc, device_input, is_ip, is_reg, branch, input_method, net, fetch_calls,
          render_calls, reg_code, width8, height8, available_text_width, drawn,
          result, file_exists, tmpdir_exists, pdf_data, exception, mid_point, exit_code>>

(***************************************************************************)
(* Character classes (str.isdigit, str.isalpha, str.isalnum on ASCII).     *)
(***************************************************************************)
Digits == {"0", "1", "2", "3", "4", "5", "6", "7", "8", "9"}

Letters ==
    {"a", "b", "c", "d", "e", "f", "g", "h", "i", "j", "k", "l", "m",
     "n", "o", "p", "q", "r", "s", "t", "u", "v", "w", "x", "y", "z",
     "A", "B", "C", "D", "E", "F", "G", "H", "I", "J", "K", "L", "M",
     "N", "O", "P", "Q", "R", "S", "T", "U", "V", "W", "X", "Y", "Z"}

isdigit(c) == c \in Digits

isalpha(c) == c \in Letters

isalnum(c) == isalpha(c) \/ isdigit(c)

(***************************************************************************)
(* is_ip_address: re.match of                                              *)
(*   ^(?:(?:25[0-5]|2[0-4][0-9]|[01]?[0-9][0-9]?)\.){3}                    *)
(*    (?:25[0-5]|2[0-4][0-9]|[01]?[0-9][0-9]?)$                            *)
(* A backtracking matcher accepts iff some way of matching exists, so the  *)
(* match is computed as the set of positions each piece can end at.        *)
(***************************************************************************)
At(s, i) == IF i >= 1 /\ i <= Len(s) THEN s[i] ELSE "<none>"

\* positions right after one octet alternative matched from position i
OctetEnds(s, i) ==
    LET a == At(s, i)
        b == At(s, i + 1)
        c == At(s, i + 2)
    IN  {j \in {i + 1, i + 2, i + 3} :
            \/ j = i + 3 /\ a = "2" /\ b = "5" /\ c \in {"0", "1", "2", "3", "4", "5"}
            \/ j = i + 3 /\ a = "2" /\ b \in {"0", "1", "2", "3", "4"} /\ isdigit(c)
            \* [01]?[0-9][0-9]?
            \/ j = i + 1 /\ isdigit(a)
            \/ j = i + 2 /\ isdigit(a) /\ isdigit(b)
            \/ j = i + 3 /\ a \in {"0", "1"} /\ isdigit(b) /\ isdigit(c)}

\* the regex's "." with the dot left unescaped: any character but a newline
AnyCharMatches(c) == c /= "<none>" /\ c /= "\n"

\* the regex's "\." : a literal dot
DotMatches(c) == c = "."

OctetDotEnds(s, starts) ==
    {j + 1 : j \in {k \in UNION {OctetEnds(s, i) : i \in starts} : DotMatches(At(s, k))}}

is_ip_address(s) ==
    LET p1 == OctetDotEnds(s, {1})
        p2 == OctetDotEnds(s, p1)
        p3 == OctetDotEnds(s, p2)
        p4 == UNION {OctetEnds(s, i) : i \in p3}
    IN  \* "$" matches at the end, and just before a newline that ends the string
        \E e \in p4 : e = Len(s) + 1 \/ (e = Len(s) /\ s[e] = "\n")

ReqCodeLen == 10

\* the test for a digit left out
is_registration_code_any_letter(s) ==
    IF Len(s) < ReqCodeLen THEN FALSE
    ELSE IF \E i \in 1..Len(s) : s[i] = "." THEN FALSE
    ELSE \E i \in 1..Len(s) : isalpha(s[i])

is_registration_code(s) ==
    IF Len(s) < ReqCodeLen THEN FALSE
    ELSE IF \E i \in 1..Len(s) : s[i] = "." THEN FALSE
    ELSE (\E i \in 1..Len(s) : isalpha(s[i])) /\ (\E i \in 1..Len(s) : isdigit(s[i]))

\* the branch generate_label's if / elif / else takes
Classify(s) ==
    IF is_ip_address(s) THEN "NetworkAddress"
    ELSE IF is_registration_code(s) THEN "OpaqueCode"
    ELSE "Unrecognized"

(***************************************************************************)
(* Page geometry of create_pdf_label, in millipoints.                      *)
(***************************************************************************)
inch == 72000

margin == inch \div 10

Min(a, b) == IF a <= b THEN a ELSE b

width_pts(w8) == w8 * (inch \div 8)

height_pts(h8) == h8 * (inch \div 8)

qr_size(h8) == Min(height_pts(h8) - 2 * margin, (3 * inch) \div 4)

text_start_x(h8) == margin + qr_size(h8) + inch \div 10

AvailableTextWidth(w8, h8) ==
    width_pts(w8) - text_start_x(h8) - margin - inch \div 20

(***************************************************************************)
(* stringWidth(text, "Helvetica-Bold", size): the font's advance widths in *)
(* 1/1000 em, summed and scaled by the size.  With widths per 1000 em and  *)
(* lengths in millipoints the scaling is a plain product.                  *)
(***************************************************************************)
Wide333 == {"-", "!", ":", "f", "t", "[", "]"}

Wide278 == {".", " ", "\n", "/", "i", "j", "l", "I", ","}

Wide556 == Digits \cup {"a", "c", "e", "k", "s", "v", "x", "y", "J", "_"}

Wide611 == {"b", "d", "g", "h", "n", "o", "p", "q", "u", "F", "L", "T", "Z"}

Wide667 == {"E", "P", "S", "V", "X", "Y"}

Wide722 == {"A", "B", "C", "D", "H", "K", "N", "R", "U"}

Wide778 == {"G", "O", "Q", "w"}

CharWidth(c) ==
    CASE c \in Wide278 -> 278
      [] c \in Wide333 -> 333
      [] c \in Wide556 -> 556
      [] c \in Wide611 -> 611
      [] c \in Wide667 -> 667
      [] c \in Wide722 -> 722
      [] c \in Wide778 -> 778
      [] c = "r" -> 389
      [] c \in {"{", "}"} -> 389
      [] c = "\"" -> 474
      [] c = "z" -> 500
      [] c \in {"<", ">", "="} -> 584
      [] c = "M" -> 833
      [] c = "m" -> 889
      [] c = "W" -> 944

RECURSIVE SumWidths(_)
SumWidths(s) == IF s = <<>> THEN 0 ELSE CharWidth(Head(s)) + SumWidths(Tail(s))

stringWidth(s, font_size) == SumWidths(s) * font_size

(***************************************************************************)
(* Python slices and int().                                                *)
(***************************************************************************)
\* s[:m]; a negative m counts from the end
SliceTo(s, m) ==
    LET n == IF m >= 0 THEN Min(m, Len(s))
             ELSE IF Len(s) + m > 0 THEN Len(s) + m ELSE 0
    IN  SubSeq(s, 1, n)

\* s[m+1:], which drops the character at the split
SliceFromSkipping(s, m) == SubSeq(s, m + 2, Len(s))

\* s[m:] for m >= 0
SliceFrom(s, m) == SubSeq(s, m + 1, Len(s))

\* int(n / d) for d > 0: truncation toward zero
IntQuot(n, d) == IF n >= 0 THEN n \div d ELSE -((-n) \div d)

(***************************************************************************)
(* The two-line step's split index (lines 196-202); indices are Python's,  *)
(* so reg_code[i-1] and reg_code[i] are s[i] and s[i+1] here.              *)
(***************************************************************************)
BreakAt(s, i) == i > 0 /\ i < Len(s) /\ (~isalnum(s[i]) \/ ~isalnum(s[i + 1]))

\* the loop without its break: the last index of the window that qualifies wins
SplitIndexLast(s) ==
    LET mid == Len(s) \div 2
        found == {i \in (mid - 2)..(mid + 2) : BreakAt(s, i)}
    IN  IF found = {} THEN mid
        ELSE CHOOSE i \in found : \A j \in found : j <= i

SplitIndex(s) ==
    LET mid == Len(s) \div 2
        found == {i \in (mid - 2)..(mid + 2) : BreakAt(s, i)}
    IN  IF found = {} THEN mid
        ELSE CHOOSE i \in found : \A j \in found : i <= j

line1(s, mid) == SliceTo(s, mid)

line2(s, mid) == SliceFrom(s, mid)

(***************************************************************************)
(* The code-text fitting of create_pdf_label (lines 178-218).  The result  *)
(* is the list of drawString calls for the code text, each with the text,  *)
(* the font size set when it was drawn and its offset from code_y, and     *)
(* whether the step raised (ZeroDivisionError when text_width is 0).       *)
(***************************************************************************)
Ellipsis == <<".", ".", ".">>

Line(text, font_size, dy) == [text |-> text, font_size |-> font_size, dy |-> dy]

Drew(lines) == [lines |-> lines, raised |-> FALSE]

max_chars(s, avail) == IntQuot(Len(s) * avail, stringWidth(s, 6)) - 3

Truncate(s, avail) ==
    IF stringWidth(s, 6) = 0
    THEN [lines |-> <<>>, raised |-> TRUE]
    ELSE Drew(<<Line(SliceTo(s, max_chars(s, avail)) \o Ellipsis, 6, 0)>>)

TwoLinesOrTruncate(s, avail) ==
    LET mid == SplitIndex(s)
    IN  IF stringWidth(line1(s, mid), 6) <= avail /\ stringWidth(line2(s, mid), 6) <= avail
        THEN Drew(<<Line(line1(s, mid), 6, inch \div 20),
                    Line(line2(s, mid), 6, -(inch \div 20))>>)
        ELSE Truncate(s, avail)

\* the size-7 test not followed by an else: the later steps run as well
CodeTextLayoutNoElse(s, avail) ==
    LET first == IF stringWidth(s, 7) <= avail THEN <<Line(s, 7, 0)>> ELSE <<>>
        rest == IF stringWidth(s, 6) <= avail THEN Drew(<<Line(s, 6, 0)>>)
                ELSE TwoLinesOrTruncate(s, avail)
    IN  [lines |-> first \o rest.lines, raised |-> rest.raised]

CodeTextLayout(s, avail) ==
    IF stringWidth(s, 7) <= avail THEN Drew(<<Line(s, 7, 0)>>)
    ELSE IF stringWidth(s, 6) <= avail THEN Drew(<<Line(s, 6, 0)>>)
    ELSE TwoLinesOrTruncate(s, avail)

\* the value mid_point holds when create_pdf_label returns, as a one-element
\* sequence; empty when the two-line step was not reached
MidPointAfter(s, avail) ==
    IF stringWidth(s, 7) <= avail \/ stringWidth(s, 6) <= avail THEN <<>>
    ELSE <<SplitIndex(s)>>

SampleCode == <<"R", "5", "7", "N", "X", "9", "8", "A", "A", "F", "C", "6", "2",
                "A", "F", "2", "A">>

(***************************************************************************)
(* Values of the variables an operation has not touched.                   *)
(***************************************************************************)
None == "None"

NoNet == [exc |-> "none", qr_status |-> 0, qr_text |-> <<>>, reg_status |-> 0,
          reg_body |-> "none"]

ClassifierIdle ==
    /\ is_ip = FALSE
    /\ is_reg = FALSE
    /\ branch = "none"

FlowIdle ==
    /\ input_method = "none"
    /\ net = NoNet
    /\ fetch_calls = 0
    /\ render_calls = 0
    /\ result = None
    /\ tmpdir_exists = FALSE
    /\ pdf_data = <<>>
    /\ exception = FALSE
    /\ exit_code = None

RenderIdle ==
    /\ available_text_width = 0
    /\ drawn = <<>>
    /\ mid_point = <<>>
    /\ file_exists = FALSE

(***************************************************************************)
(* Renderer specification: create_pdf_label applied to every code of up to *)
(* MaxCodeLen characters (a wide letter, a digit, a narrow separator) on   *)
(* pages 1.0 to 1.375 inch wide and 0.5 or 1.0 inch high, where codes this *)
(* short reach every step of the fitting chain.  The code is never empty:  *)
(* generate_label, the only caller, returns before the render when the     *)
(* fetched code is empty and accepts a typed code only from 10 characters. *)
(* The address flow passes on whatever text the device answered, so the    *)
(* codes are not limited to well-formed registration codes.                *)
(***************************************************************************)
MaxCodeLen == 8

CodeAlphabet == {"W", "1", "-"}

\* the non-empty codes of up to max characters
Codes(max) == UNION {[1..n -> CodeAlphabet] : n \in 1..max}

RenderWidths == {8, 9, 10, 11}

RenderHeights == {4, 8}

InitRender ==
    /\ pc = "ready"
    /\ device_input = <<>>
    /\ reg_code \in Codes(MaxCodeLen)
    /\ width8 \in RenderWidths
    /\ height8 \in RenderHeights
    /\ ClassifierIdle
    /\ FlowIdle
    /\ RenderIdle

\* create_pdf_label(reg_code, None, output_path, width_inches, height_inches)
CreatePdfLabel ==
    /\ pc = "ready"
    /\ LET avail == AvailableTextWidth(width8, height8)
           layout == CodeTextLayout(reg_code, avail)
       IN  /\ available_text_width' = avail
           /\ drawn' = layout.lines
           /\ mid_point' = MidPointAfter(reg_code, avail)
           /\ file_exists' = ~layout.raised
           /\ pc' = IF layout.raised THEN "raised" ELSE "saved"
    /\ render_calls' = render_calls + 1
    /\ UNCHANGED <<device_input, is_ip, is_reg, branch, input_method, net, fetch_calls,
                   reg_code, width8, height8, result, tmpdir_exists, pdf_data, exception,
                   exit_code>>

NextRender == CreatePdfLabel

SpecRender == InitRender /\ [][NextRender]_vars

(***************************************************************************)
(* Classifier specification: is_ip_address, is_registration_code and the   *)
(* branch of generate_label applied to every text of up to MaxChunks       *)
(* pieces.                                                                 *)
(***************************************************************************)
MaxChunks == 5

Chunks == {<<"1">>, <<"1", ".">>, <<"2", "5">>, <<"5", ".">>, <<"6">>,
           <<"2", "5", "a">>, <<"R", "5", "7", "N", "X">>, <<"\n">>}

RECURSIVE Flatten(_)
Flatten(ss) == IF ss = <<>> THEN <<>> ELSE Head(ss) \o Flatten(Tail(ss))

\* the texts made of up to max pieces
ClassifierInputs(max) ==
    {Flatten(f) : f \in UNION {[1..n -> Chunks] : n \in 0..max}}

InitClassifier ==
    /\ pc = "input"
    /\ device_input \in ClassifierInputs(MaxChunks)
    /\ reg_code = None
    /\ width8 = 0
    /\ height8 = 0
    /\ ClassifierIdle
    /\ FlowIdle
    /\ RenderIdle

\* the conditions of generate_label's if / elif / else, lines 240-257
ClassifyInput ==
    /\ pc = "input"
    /\ is_ip' = is_ip_address(device_input)
    /\ is_reg' = is_registration_code(device_input)
    /\ branch' = Classify(device_input)
    /\ pc' = "classified"
    /\ UNCHANGED <<device_input, input_method, net, fetch_calls, render_calls, reg_code,
                   width8, height8, available_text_width, drawn, result, file_exists,
                   tmpdir_exists, pdf_data, exception, mid_point, exit_code>>

NextClassifier == ClassifyInput

SpecClassifier == InitClassifier /\ [][NextClassifier]_vars

\* C2: classification is total and exclusive: no string is both an address
\* and a registration code, exactly one of the three categories holds, and the
\* branch taken does not depend on the order of the two tests.
C2_ClassificationExclusive ==
    pc = "classified" =>
        /\ ~(is_ip /\ is_reg)
        /\ Cardinality({k \in {"NetworkAddress", "OpaqueCode", "Unrecognized"} :
                          \/ k = "NetworkAddress" /\ is_ip
                          \/ k = "OpaqueCode" /\ is_reg
                          \/ k = "Unrecognized" /\ ~is_ip /\ ~is_reg}) = 1
        /\ branch = (IF is_reg THEN "OpaqueCode"
                     ELSE IF is_ip THEN "NetworkAddress" ELSE "Unrecognized")

C2_Witness ==
    /\ pc = "classified"
    /\ is_ip
    /\ Len(device_input) >= ReqCodeLen
    /\ branch = "NetworkAddress"

(***************************************************************************)
(* Form-range specification: create_pdf_label applied to the sample code   *)
(* on every page size the form's number inputs permit (app.py, 50-52).     *)
(***************************************************************************)
FormMinWidth8 == 8

FormMaxWidth8 == 80

FormMinHeight8 == 4

FormMaxHeight8 == 40

InitFormSizes ==
    /\ pc = "ready"
    /\ device_input = <<>>
    /\ reg_code = SampleCode
    /\ width8 \in FormMinWidth8..FormMaxWidth8
    /\ height8 \in FormMinHeight8..FormMaxHeight8
    /\ ClassifierIdle
    /\ FlowIdle
    /\ RenderIdle

SpecFormSizes == InitFormSizes /\ [][NextRender]_vars

(***************************************************************************)
(* fetch_device_data (lines 59-92).  The device's answers to one run are   *)
(* the record net:                                                         *)
(*   exc        which requests.get raises a RequestException, if any       *)
(*   qr_status, qr_text     status and body of /api/system/qr              *)
(*   reg_status, reg_body   status and body of /api/system/registerCode    *)
(*   io         whether writing the PDF fails, and read whether reading it *)
(*              back fails                                                 *)
(* A body is its text, what json() makes of it, and the registerCode       *)
(* field when it is a JSON object that has one.                            *)
(***************************************************************************)
Body(text, json, has_field, field) ==
    [text |-> text, json |-> json, has_field |-> has_field, field |-> field]

JsonCodeBody == Body(<<"{", "\"", "r", "e", "g", "i", "s", "t", "e", "r", "C", "o", "d",
                       "e", "\"", ":", "\"", "R", "5", "7", "N", "X", "9", "8", "A", "A",
                       "F", "C", "6", "2", "A", "F", "2", "A", "\"", "}">>, "object", TRUE, SampleCode)

JsonEmptyCodeBody == Body(<<"{", "\"", "r", "e", "g", "i", "s", "t", "e", "r", "C", "o", "d", "e", "\"", ":", "\"", "\"", "}">>, "object", TRUE, <<>>)

JsonNullCodeBody == Body(<<"{", "\"", "r", "e", "g", "i", "s", "t", "e", "r", "C",
                           "o", "d", "e", "\"", ":", "n", "u", "l", "l", "}">>, "object", TRUE, None)

JsonNoFieldBody == Body(<<"{", "\"", "e", "r", "r", "o", "r", "\"", ":", "\"", "x", "\"", "}">>, "object", FALSE, None)

JsonArrayBody == Body(<<"[", "]">>, "array", FALSE, None)

PlainCodeBody == Body(SampleCode \o <<"\n">>, "invalid", FALSE, None)

HtmlBody == Body(<<"<", "h", "t", "m", "l", ">", "4", "0", "1", "<", "/", "h", "t", "m", "l", ">">>, "invalid", FALSE, None)

EmptyBody == Body(<<>>, "invalid", FALSE, None)

BlankBody == Body(<<" ", "\n">>, "invalid", FALSE, None)

RegBodies == {JsonCodeBody, JsonEmptyCodeBody, JsonNullCodeBody, JsonNoFieldBody,
              JsonArrayBody, PlainCodeBody, HtmlBody, EmptyBody, BlankBody}

QrSvg == <<"<", "s", "v", "g", "/", ">">>

HttpOk == 200

\* the statuses a device answers with: success and 401 for wrong credentials
HttpStatuses == {HttpOk, 401}

Nets ==
    [exc : {"none", "qr", "reg"},
     qr_status : HttpStatuses,
     qr_text : {QrSvg, <<>>},
     reg_status : HttpStatuses,
     reg_body : RegBodies,
     io : {"ok", "fails", "fails_partway"},
     read : {"ok", "fails"}]

Whitespace == {" ", "\n"}

\* str.strip()
RECURSIVE LStrip(_)
LStrip(s) == IF s /= <<>> /\ Head(s) \in Whitespace THEN LStrip(Tail(s)) ELSE s

RECURSIVE RStrip(_)
RStrip(s) ==
    IF s /= <<>> /\ s[Len(s)] \in Whitespace THEN RStrip(SubSeq(s, 1, Len(s) - 1)) ELSE s

Strip(s) == LStrip(RStrip(s))

\* lines 82-86: the registration code taken from the response
ParseRegCode(b) ==
    IF b.json = "invalid" THEN [raised |-> FALSE, reg_code |-> Strip(b.text)]
    ELSE IF b.json = "object"
    THEN [raised |-> FALSE,
          reg_code |-> IF b.has_field THEN b.field ELSE Strip(b.text)]
    \* a JSON value that is no object has no get(): AttributeError, which
    \* neither except clause of fetch_device_data catches
    ELSE [raised |-> TRUE, reg_code |-> None]

FetchFailedResult == [raised |-> FALSE, qr_svg |-> None, reg_code |-> None]

FetchDeviceData(n) ==
    IF n.exc = "qr" THEN FetchFailedResult
    ELSE IF n.qr_status /= HttpOk THEN FetchFailedResult
    ELSE IF n.exc = "reg" THEN FetchFailedResult
    ELSE IF n.reg_status /= HttpOk THEN FetchFailedResult
    ELSE LET p == ParseRegCode(n.reg_body)
         IN  [raised |-> p.raised,
              qr_svg |-> IF p.raised THEN None ELSE n.qr_text,
              reg_code |-> p.reg_code]

\* Python's "not x" for a string or None
Falsy(x) == x = None \/ x = <<>>

(***************************************************************************)
(* generate_label (lines 223-266) as the record of what it leaves behind.  *)
(***************************************************************************)
OutputPath == "output_path"

\* lines 259-266: create_pdf_label inside try / except Exception
RenderStep(br, fetches, code, n, w8, h8) ==
    LET avail == AvailableTextWidth(w8, h8)
        layout == CodeTextLayout(code, avail)
        failed == layout.raised \/ n.io /= "ok"
    IN  [branch |-> br, fetch_calls |-> fetches, render_calls |-> 1,
         reg_code |-> code,
         available_text_width |-> avail,
         drawn |-> layout.lines,
         mid_point |-> MidPointAfter(code, avail),
         file_exists |-> (~layout.raised /\ n.io /= "fails"),
         raised |-> FALSE,
         result |-> IF failed THEN None ELSE OutputPath]

NoRender(br, fetches, exc) ==
    [branch |-> br, fetch_calls |-> fetches, render_calls |-> 0, reg_code |-> None,
     available_text_width |-> 0, drawn |-> <<>>, mid_point |-> <<>>,
     file_exists |-> FALSE, raised |-> exc, result |-> None]

\* the registration-code branch calling fetch_device_data as well
GenerateLabelAlwaysFetching(input, n, w8, h8) ==
    LET br == Classify(input)
    IN  IF br = "Unrecognized" THEN NoRender(br, 0, FALSE)
        ELSE LET f == FetchDeviceData(n)
             IN  IF f.raised THEN NoRender(br, 1, TRUE)
                 ELSE IF Falsy(f.qr_svg) \/ Falsy(f.reg_code) THEN NoRender(br, 1, FALSE)
                 ELSE RenderStep(br, 1, f.reg_code, n, w8, h8)

GenerateLabel(input, n, w8, h8) ==
    LET br == Classify(input)
    IN  IF br = "NetworkAddress"
        THEN LET f == FetchDeviceData(n)
             IN  IF f.raised THEN NoRender(br, 1, TRUE)
                 ELSE IF Falsy(f.qr_svg) \/ Falsy(f.reg_code) THEN NoRender(br, 1, FALSE)
                 ELSE RenderStep(br, 1, f.reg_code, n, w8, h8)
        ELSE IF br = "OpaqueCode" THEN RenderStep(br, 0, input, n, w8, h8)
        ELSE NoRender(br, 0, FALSE)

\* the state generate_label leaves, given in r
GenerateLabelEffect(r) ==
    /\ branch' = r.branch
    /\ fetch_calls' = fetch_calls + r.fetch_calls
    /\ render_calls' = render_calls + r.render_calls
    /\ reg_code' = r.reg_code
    /\ available_text_width' = r.available_text_width
    /\ drawn' = r.drawn
    /\ mid_point' = r.mid_point
    /\ file_exists' = r.file_exists
    /\ result' = r.result
    /\ exception' = r.raised

(***************************************************************************)
(* The two entry points: main (lines 268-297) and the form handler of      *)
(* app.py (lines 59-107).                                                  *)
(***************************************************************************)
IpExample == <<"1", "9", "2", ".", "1", "6", "8", ".", "1", ".", "1", "0", "0">>

BadOctet == <<"1", "0", ".", "0", ".", "0", ".", "2", "5", "6">>

ShortCode == <<"R", "5", "7", "N", "X", "9", "8", "A", "A">>

NotAnAddressOrCode == <<"n", "o", "t", "-", "a", "n", "-", "a", "d", "d", "r", "e",
                      "s", "s", "-", "o", "r", "-", "c", "o", "d", "e", "!">>

FlowInputs == {IpExample, SampleCode, NotAnAddressOrCode, BadOctet, ShortCode, <<>>}

\* the default label and the smallest square one the form permits
FlowSizes == {<<21, 8>>, <<8, 8>>}

InitFlow ==
    /\ pc = "idle"
    /\ device_input = <<>>
    /\ reg_code = None
    /\ width8 = 0
    /\ height8 = 0
    /\ ClassifierIdle
    /\ FlowIdle
    /\ RenderIdle

\* main(): generate_label, then exit 1 unless it returned the path; an
\* exception leaving generate_label ends the process with exit code 1 too
Main ==
    /\ pc = "idle"
    /\ \E input \in FlowInputs, n \in Nets, size \in FlowSizes :
          /\ device_input' = input
          /\ net' = n
          /\ width8' = size[1]
          /\ height8' = size[2]
          /\ GenerateLabelEffect(GenerateLabel(input, n, size[1], size[2]))
          /\ exit_code' = IF GenerateLabel(input, n, size[1], size[2]).result = OutputPath
                          THEN "exit 0" ELSE "exit 1"
    /\ pc' = "exited"
    /\ UNCHANGED <<is_ip, is_reg, input_method, tmpdir_exists, pdf_data>>

\* lines 59-73: the form is submitted; the input is validated against the
\* selected method and the temporary directory is created
Submit ==
    /\ pc = "idle"
    /\ \E method \in {"Device IP Address", "Registration Code"},
          input \in FlowInputs, n \in Nets, size \in FlowSizes :
          /\ input_method' = method
          /\ device_input' = input
          /\ net' = n
          /\ width8' = size[1]
          /\ height8' = size[2]
          /\ IF input = <<>>
             THEN /\ exit_code' = "error: no input"
                  /\ pc' = "finished"
                  /\ UNCHANGED tmpdir_exists
             ELSE IF \/ method = "Device IP Address" /\ ~is_ip_address(input)
                     \/ method = "Registration Code" /\ ~is_registration_code(input)
             THEN /\ exit_code' = "error: invalid input"
                  /\ pc' = "finished"
                  /\ UNCHANGED tmpdir_exists
             ELSE /\ tmpdir_exists' = TRUE
                  /\ pc' = "in_tmpdir"
                  /\ UNCHANGED exit_code
    /\ UNCHANGED <<is_ip, is_reg, branch, fetch_calls, render_calls, reg_code,
                   available_text_width, drawn, result, file_exists, pdf_data, exception,
                   mid_point>>

\* lines 76-83: generate_label writes into the temporary directory
HandlerGenerate ==
    /\ pc = "in_tmpdir"
    /\ GenerateLabelEffect(GenerateLabel(device_input, net, width8, height8))
    /\ pc' = IF GenerateLabel(device_input, net, width8, height8).result = OutputPath
             THEN "generated" ELSE "leaving_tmpdir"
    /\ UNCHANGED <<device_input, is_ip, is_reg, input_method, net, width8, height8,
                   tmpdir_exists, pdf_data, exit_code>>

\* lines 85-101: the file is read and offered for download
HandlerRead ==
    /\ pc = "generated"
    /\ IF net.read = "ok"
       THEN pdf_data' = <<[reg_code |-> reg_code, drawn |-> drawn]>> /\ UNCHANGED exception
       ELSE exception' = TRUE /\ UNCHANGED pdf_data
    /\ pc' = "leaving_tmpdir"
    /\ UNCHANGED <<device_input, is_ip, is_reg, branch, input_method, net, fetch_calls,
                   render_calls, reg_code, width8, height8, available_text_width, drawn,
                   result, file_exists, tmpdir_exists, mid_point, exit_code>>

\* a directory removed only when the block is left without an exception
DirLeftOnException(failed) == failed

\* whether the directory exists once the with block of line 71 is left
DirExistsAfterWith(failed) == FALSE

\* lines 71, 103-107: the with block is left, then the message is shown
HandlerLeaveTmpdir ==
    /\ pc = "leaving_tmpdir"
    /\ tmpdir_exists' = DirExistsAfterWith(exception)
    /\ file_exists' = (file_exists /\ DirExistsAfterWith(exception))
    /\ exit_code' = IF exception THEN "error: exception"
                    ELSE IF result = None THEN "error: failed"
                    ELSE "download offered"
    /\ pc' = "finished"
    /\ UNCHANGED <<device_input, is_ip, is_reg, branch, input_method, net, fetch_calls,
                   render_calls, reg_code, width8, height8, available_text_width, drawn,
                   result, pdf_data, exception, mid_point>>

Next ==
    \/ Main
    \/ Submit
    \/ HandlerGenerate
    \/ HandlerRead
    \/ HandlerLeaveTmpdir

Init == InitFlow

Spec == Init /\ [][Next]_vars

(***************************************************************************)
(* Properties of the two flows.                                            *)
(***************************************************************************)
\* generate_label has run
Returned == branch /= "none"

\* a body that is neither a JSON object with a non-empty registerCode string
\* nor any text: a JSON value without the field, or nothing but whitespace
MalformedBody(b) ==
    \/ b.json = "array"
    \/ b.json = "object" /\ (~b.has_field \/ Falsy(b.field))
    \/ Strip(b.text) = <<>>

FetchFails(n) ==
    \/ n.exc /= "none"
    \/ n.qr_status /= HttpOk
    \/ n.reg_status /= HttpOk
    \/ MalformedBody(n.reg_body)

\* C5: when the device fetch fails in the address flow (a non-success status
\* on either endpoint, a network error, a malformed body), generate_label
\* returns no path, create_pdf_label is not called and no document is written.
C5_FetchFailureAborts ==
    Returned /\ is_ip_address(device_input) /\ FetchFails(net) =>
        /\ result = None
        /\ render_calls = 0
        /\ ~file_exists
        /\ pdf_data = <<>>

Unrecognized(s) == ~is_ip_address(s) /\ ~is_registration_code(s)

\* C6: for an input that is neither an address nor a registration code, such
\* as "not-an-address-or-code!", generate_label returns None without calling
\* fetch_device_data or create_pdf_label, no document is written, and the
\* command line exits with a non-zero code.
C6_UnrecognizedRejected ==
    Returned /\ (Unrecognized(device_input) \/ device_input = NotAnAddressOrCode) =>
        /\ result = None
        /\ ~exception
        /\ fetch_calls = 0
        /\ render_calls = 0
        /\ ~file_exists
        /\ pc = "exited" => exit_code = "exit 1"

C6_Witness ==
    /\ pc = "exited"
    /\ device_input = NotAnAddressOrCode
    /\ branch = "Unrecognized"
    /\ exit_code = "exit 1"

\* the render of the address flow follows a fetch that returned a non-empty
\* payload and a non-empty code
RenderFollowsFetch ==
    is_ip_address(device_input) /\ render_calls > 0 =>
        /\ fetch_calls = 1
        /\ net.exc = "none" /\ net.qr_status = HttpOk /\ net.reg_status = HttpOk
        /\ net.qr_text /= <<>>
        /\ reg_code /= None /\ reg_code /= <<>>

\* C8 as stated: fetch_device_data is called iff the input is an address; for
\* a registration code the input itself is the code rendered, the document is
\* produced and no network call is made; a render in the address flow follows
\* a fetch that returned a non-empty payload and a non-empty code.
C8_FetchIffAddress ==
    Returned =>
        /\ fetch_calls = (IF is_ip_address(device_input) THEN 1 ELSE 0)
        /\ is_registration_code(device_input) =>
             /\ fetch_calls = 0
             /\ render_calls = 1
             /\ reg_code = device_input
             /\ result = OutputPath
        /\ RenderFollowsFetch

\* C8 amended: as stated, except that for a registration code the document is
\* produced unless create_pdf_label raises, in which case generate_label
\* returns None; no network call is made either way.
C8_FetchIffAddressUnlessRenderRaises ==
    Returned =>
        /\ fetch_calls = (IF is_ip_address(device_input) THEN 1 ELSE 0)
        /\ is_registration_code(device_input) =>
             /\ fetch_calls = 0
             /\ render_calls = 1
             /\ reg_code = device_input
             /\ result = (IF net.io = "ok" THEN OutputPath ELSE None)
        /\ RenderFollowsFetch

C8_Witness ==
    /\ pc = "exited"
    /\ is_registration_code(device_input)
    /\ fetch_calls = 0
    /\ render_calls = 1
    /\ result = OutputPath
    /\ file_exists

InHandlerTmpdir == pc \in {"in_tmpdir", "generated", "leaving_tmpdir"}

\* C7: the form handler's temporary directory exists only while one submit
\* is inside its with block; when the handler has finished, on every path,
\* the directory and the PDF in it are gone; and the bytes offered for
\* download are read while both still exist.
C7_TmpdirScoped ==
    /\ [](tmpdir_exists => InHandlerTmpdir)
    /\ [](pc = "finished" => ~tmpdir_exists /\ ~file_exists)
    /\ [][pdf_data' /= pdf_data => tmpdir_exists /\ file_exists /\ tmpdir_exists']_vars

C7_Witness ==
    /\ pc = "finished"
    /\ exception
    /\ result = OutputPath
    /\ ~tmpdir_exists
    /\ ~file_exists

(***************************************************************************)
(* Properties of the renderer.                                             *)
(***************************************************************************)
Rendered == pc = "saved"

IsPrefix(p, s) == Len(p) <= Len(s) /\ p = SubSeq(s, 1, Len(p))

EndsWithEllipsis(t) == Len(t) >= 3 /\ SubSeq(t, Len(t) - 2, Len(t)) = Ellipsis

\* the truncation step ran: the two-line step was reached and one line was drawn
TruncationRan == Rendered /\ mid_point /= <<>> /\ Len(drawn) = 1

\* C1: whenever the truncation step is reached, the drawn text is a strict
\* prefix of the code followed by "...", and its width at size 6 is at most
\* available_text_width.
C1_TruncatedTextFits ==
    TruncationRan =>
        LET t == drawn[1].text
            p == SubSeq(t, 1, Len(t) - 3)
        IN  /\ EndsWithEllipsis(t)
            /\ IsPrefix(p, reg_code) /\ Len(p) < Len(reg_code)
            /\ stringWidth(t, 6) <= available_text_width

\* C3: the layout drawn is that of the first step of the chain (one line at
\* size 7, one line at size 6, two lines at size 6, truncation) whose fit test
\* passes, and nothing else is drawn.
C3_FirstFitChain ==
    Rendered =>
        LET fits7 == stringWidth(reg_code, 7) <= available_text_width
            fits6 == stringWidth(reg_code, 6) <= available_text_width
            twoFit == \A k \in 1..2 :
                         stringWidth(drawn[k].text, 6) <= available_text_width
        IN  /\ fits7 => drawn = <<Line(reg_code, 7, 0)>>
            /\ ~fits7 /\ fits6 => drawn = <<Line(reg_code, 6, 0)>>
            /\ ~fits7 /\ ~fits6 =>
                 \/ /\ Len(drawn) = 2
                    /\ twoFit
                    /\ drawn[1].font_size = 6 /\ drawn[2].font_size = 6
                    /\ drawn[1].dy > 0 /\ drawn[2].dy < 0
                 \/ /\ Len(drawn) = 1
                    /\ EndsWithEllipsis(drawn[1].text)
                    /\ drawn[1].font_size = 6 /\ drawn[1].dy = 0
                    /\ \/ stringWidth(SliceTo(reg_code, mid_point[1]), 6)
                            > available_text_width
                       \/ stringWidth(SliceFrom(reg_code, mid_point[1]), 6)
                            > available_text_width

C3_Witness ==
    /\ Rendered
    /\ stringWidth(reg_code, 7) <= available_text_width
    /\ drawn = <<Line(reg_code, 7, 0)>>
    /\ Len(reg_code) >= 2

\* C4: whenever the code is drawn as two lines, the first line followed by the
\* second is the code.
C4_TwoLinesRoundTrip ==
    Rendered /\ Len(drawn) = 2 => drawn[1].text \o drawn[2].text = reg_code

C4_Witness ==
    /\ Rendered
    /\ Len(drawn) = 2
    /\ mid_point /= <<Len(reg_code) \div 2>>
    /\ drawn[1].text /= <<>> /\ drawn[2].text /= <<>>

\* a boundary between characters of differing alphanumeric-ness at Python
\* index i of s
ClassBoundary(s, i) == i > 0 /\ i < Len(s) /\ isalnum(s[i]) /= isalnum(s[i + 1])

\* a split position with a non-alphanumeric character on at least one side
BesideNonAlnum(s, i) ==
    i > 0 /\ i < Len(s) /\ \E k \in {i, i + 1} : ~isalnum(s[k])

Window(s) == ((Len(s) \div 2) - 2)..((Len(s) \div 2) + 2)

\* C9 as stated: the split is at a boundary between a non-alphanumeric and an
\* alphanumeric character within the window when the window holds one, and at
\* the midpoint otherwise; it lies in the window and strictly inside the code.
C9_SplitAtClassBoundary ==
    mid_point /= <<>> =>
        LET k == mid_point[1]
        IN  /\ (\E i \in Window(reg_code) : ClassBoundary(reg_code, i))
                  => ClassBoundary(reg_code, k)
            /\ ~(\E i \in Window(reg_code) : ClassBoundary(reg_code, i))
                  => k = Len(reg_code) \div 2
            /\ k \in Window(reg_code)
            /\ Len(reg_code) >= 2 => k > 0 /\ k < Len(reg_code)

\* C9 amended: the split is at the lowest index of the window that has a
\* non-alphanumeric character on at least one side, and at the midpoint when
\* the window holds no such index; it lies in the window and strictly inside
\* the code.
C9_SplitAtFirstNonAlnumNeighbour ==
    mid_point /= <<>> =>
        LET k == mid_point[1]
            any == \E i \in Window(reg_code) : BesideNonAlnum(reg_code, i)
        IN  /\ any => /\ BesideNonAlnum(reg_code, k)
                      /\ \A j \in Window(reg_code) : j < k => ~BesideNonAlnum(reg_code, j)
            /\ ~any => k = Len(reg_code) \div 2
            /\ k \in Window(reg_code)
            /\ Len(reg_code) >= 2 => k > 0 /\ k < Len(reg_code)

C9_Witness ==
    /\ Rendered
    /\ Len(drawn) = 2
    /\ mid_point /= <<Len(reg_code) \div 2>>
    /\ ~isalnum(reg_code[mid_point[1]]) /\ ~isalnum(reg_code[mid_point[1] + 1])
    /\ \E i \in Window(reg_code) : ClassBoundary(reg_code, i)

\* C10: for every page size the form permits, the available text width that
\* create_pdf_label computes is strictly positive.
C10_AvailableWidthPositive ==
    pc /= "ready" => available_text_width > 0

====
